---------------------------- MODULE Spec2Model ----------------------------
(***************************************************************************)
(* A state-machine model of src/main.py, the CSV chart command-line tool.  *)
(*                                                                         *)
(* One run of main() is modelled as a sequence of steps: read_csv_data,    *)
(* parse_csv, the chart-type selection, one create_* renderer and the      *)
(* output sink (file save, viewer loop or display window).  A keyboard     *)
(* interrupt may arrive between any two steps.                             *)
(*                                                                         *)
(* The CSV text is a sequence of lines, each line a sequence of fields.    *)
(* pandas.read_csv, csv.reader, pandas.DataFrame and pandas.to_numeric are *)
(* modelled by what they do on such text:                                  *)
(*   - read_csv skips blank lines, takes the first line as the header,     *)
(*     lets the first data line be longer than the header (the leading     *)
(*     extra fields become the index), pads shorter lines with NaN, and    *)
(*     raises on an unterminated quote, on text with no line, and on a     *)
(*     later line with more fields than expected;                          *)
(*   - csv.reader keeps blank lines as empty rows and accepts an           *)
(*     unterminated quote at the end of the text;                          *)
(*   - DataFrame(rows, columns=headers) pads short rows with None and      *)
(*     raises when the longest row differs from the header;                *)
(*   - to_numeric raises ValueError on text that is no number.             *)
(* Building the figure itself (subplots, hist, scatter, hexbin, savefig)   *)
(* is taken to succeed.                                                    *)
(***************************************************************************)
EXTENDS Integers, Sequences, FiniteSets, TLC

(* Bounds of the inputs explored. *)
MaxCols == 4
MaxRows == 2

VARIABLES
    file,        \* the FILE argument: [name, rows, openQuote]
    chart_type,  \* --chart-type, reassigned by main when it is "auto"
    requested,   \* the value --chart-type had on entry (history)
    output,      \* --output, NoOutput when absent
    viewer,      \* --viewer flag
    pc,          \* position of main()
    strategies,  \* parse strategies attempted by parse_csv, in order
    df,          \* the DataFrame returned by parse_csv
    fig,         \* the figure returned by the renderer
    err,         \* the exception that ended the run
    stderr,      \* messages written to the diagnostic channel, in order
    exitCode,    \* process exit status, -1 while running
    outFile,     \* state of the file at the --output path
    tmpFile,     \* state of the temporary file of viewer mode
    launched,    \* viewer commands passed to subprocess.run, with what each did
    shown,       \* whether the display window was shown
    stages       \* the steps of main that have run, in order (history)

vars == <<file, chart_type, requested, output, viewer, pc, strategies, df, fig,
          err, stderr, exitCode, outFile, tmpFile, launched, shown,
          stages>>

-----------------------------------------------------------------------------
(* Text, cells and numbers *)

Range(s) == {s[i] : i \in 1..Len(s)}

Max(a, b) == IF a >= b THEN a ELSE b

\* The numerals that occur as fields; Numeral[v] is the text of the number v.
Numeral == <<"1", "2", "3", "4">>

\* float(cell): does the text parse as a number
IsFloat(cell) == cell \in Range(Numeral)

\* the number a numeric text denotes
ToFloat(cell) == CHOOSE v \in 1..Len(Numeral) : Numeral[v] = cell

\* A cell of a numeric column is <<v>>, or NaN when it is missing.
NaN == <<>>

\* A cell of an object column that DataFrame padded.
None == "None"

NoOutput == "None"

IsBlank(rows) == \A i \in 1..Len(rows) : rows[i] = <<>>

-----------------------------------------------------------------------------
(* Tables *)

NoTable == [columns |-> <<>>, dtypes |-> <<>>, data |-> <<>>, nrows |-> 0]

NCols(t) == Len(t.columns)

\* padded field j of a line, Missing beyond its end
Field(line, j, missing) == IF j <= Len(line) THEN line[j] ELSE missing

\* pandas.to_numeric on the cells of one column: can every present cell be parsed
Coercible(cells, missing) ==
    \A i \in 1..Len(cells) : cells[i] = missing \/ IsFloat(cells[i])

ToNumeric(cells, missing) ==
    [i \in 1..Len(cells) |-> IF cells[i] = missing THEN NaN ELSE <<ToFloat(cells[i])>>]

\* header names as read_csv returns them: a repeated name gets the suffix .k
Mangle(header) ==
    [j \in 1..Len(header) |->
        <<header[j], Cardinality({k \in 1..(j-1) : header[k] = header[j]})>>]

HasDuplicates(header) ==
    \E j, k \in 1..Len(header) : j < k /\ header[j] = header[k]

-----------------------------------------------------------------------------
(* parse_csv *)

Parsed(t) == [ok |-> TRUE, table |-> t, error |-> "none"]

Raised(e) == [ok |-> FALSE, table |-> NoTable, error |-> e]

\* pd.read_csv(data_source), the trusting parse.  A column is numeric when it has
\* at least one row and every present cell is a number; "" is a missing cell.
PdReadCsv(rows, openQuote) ==
    LET lines == SelectSeq(rows, LAMBDA r : r # <<>>)
    IN  IF openQuote THEN Raised("ParserError")
        ELSE IF lines = <<>> THEN Raised("EmptyDataError")
        ELSE
          LET header == lines[1]
              hw     == Len(header)
              width  == IF Len(lines) >= 2 THEN Max(hw, Len(lines[2])) ELSE hw
              idx    == width - hw
              n      == Len(lines) - 1
              cells(j) == [i \in 1..n |-> Field(lines[i + 1], idx + j, "")]
              numeric(j) == n > 0 /\ Coercible(cells(j), "")
          IN  IF \E i \in 3..Len(lines) : Len(lines[i]) > width
              THEN Raised("ParserError")
              ELSE Parsed([columns |-> Mangle(header),
                           dtypes  |-> [j \in 1..hw |->
                                          IF numeric(j) THEN "float64" ELSE "object"],
                           data    |-> [j \in 1..hw |->
                                          IF numeric(j) THEN ToNumeric(cells(j), "")
                                          ELSE cells(j)],
                           nrows   |-> n])

\* pd.DataFrame(data_rows, columns=headers) followed by the to_numeric loop of
\* parse_csv: a column that cannot be converted is kept as text.
DataFrame(data_rows, headers) ==
    LET n  == Len(data_rows)
        hw == Len(headers)
        longest == IF n = 0 THEN hw
                   ELSE CHOOSE m \in {Len(data_rows[i]) : i \in 1..n} :
                          \A i \in 1..n : Len(data_rows[i]) <= m
        cells(j) == [i \in 1..n |-> Field(data_rows[i], j, None)]
        numeric(j) == Coercible(cells(j), None)
    IN  IF longest # hw THEN Raised("ValueError: columns passed")
        ELSE IF HasDuplicates(headers) THEN Raised("TypeError")
        ELSE Parsed([columns |-> headers,
                     dtypes  |-> [j \in 1..hw |->
                                    IF numeric(j) THEN "float64" ELSE "object"],
                     data    |-> [j \in 1..hw |->
                                    IF numeric(j) THEN ToNumeric(cells(j), None)
                                    ELSE cells(j)],
                     nrows   |-> n])

\* headers synthesized for headerless text: Column_1 .. Column_n
ColumnNames(n) == [i \in 1..n |-> <<"Column_", i>>]

\* headers taken literally from the first row
Literal(row) == [j \in 1..Len(row) |-> <<row[j], 0>>]

\* "Assume first row is header if it contains non-numeric data"
HasHeader(rows) == ~IsFloat(rows[1][1])

\* the fallback of parse_csv: csv.reader after seek(0), header inference, DataFrame
ManualParse(rows) ==
    IF rows = <<>> THEN Raised("ValueError: CSV file is empty")
    ELSE IF rows[1] = <<>> THEN Raised("IndexError")
    ELSE IF HasHeader(rows)
         THEN DataFrame(Tail(rows), Literal(rows[1]))
         ELSE DataFrame(rows, ColumnNames(Len(rows[1])))

\* parse_csv: the trusting parse, and the manual parse when it raised
ParseCsv(rows, openQuote) ==
    LET t == PdReadCsv(rows, openQuote)
    IN  IF t.ok THEN [result |-> t, attempted |-> <<"pandas">>]
        ELSE [result |-> ManualParse(rows), attempted |-> <<"pandas", "manual">>]

-----------------------------------------------------------------------------
(* Chart-type selection, main lines 322-336 *)

ChartTypes == {"auto", "histogram", "scatter", "hexbin"}

Resolved(t) == [ok |-> TRUE, type |-> t, error |-> "none"]

Rejected(e) == [ok |-> FALSE, type |-> "none", error |-> e]

\* "Determine chart type"
AutoDetect(requestedType, n) ==
    IF requestedType # "auto" THEN Resolved(requestedType)
    ELSE IF n = 2 THEN Resolved("histogram")
    ELSE IF n = 3 THEN Resolved("scatter")
    ELSE Rejected("Auto-detection failed")

\* ColumnsFit with the hexbin case forgotten (chart_type == 'scatter' only)
ColumnsFitScatterOnly(type, n) ==
    IF type = "histogram" /\ n # 2 THEN FALSE
    ELSE IF type = "scatter" /\ n # 3 THEN FALSE
    ELSE TRUE

\* "Validate chart type with data"
ColumnsFit(type, n) ==
    IF type = "histogram" /\ n # 2 THEN FALSE
    ELSE IF type \in {"scatter", "hexbin"} /\ n # 3 THEN FALSE
    ELSE TRUE

SelectChartType(requestedType, n) ==
    LET auto == AutoDetect(requestedType, n)
    IN  IF ~auto.ok THEN auto
        ELSE IF ~ColumnsFit(auto.type, n) THEN Rejected("requires columns")
        ELSE auto

-----------------------------------------------------------------------------
(* Renderers *)

NoColumn == <<>>

NoFig == [kind |-> "none", annotated |-> FALSE, correlation |-> "absent"]

\* the number of columns each create_* function insists on
ExpectedColumns(kind) == IF kind = "histogram" THEN 2 ELSE 3

\* RequiredColumns with y checked before x
RequiredColumnsYFirst(kind) == IF kind = "histogram" THEN <<2>> ELSE <<3, 2>>

\* the positions of the columns a renderer requires to be numeric, in the order
\* it checks them: value_col; [x_col, y_col]
RequiredColumns(kind) == IF kind = "histogram" THEN <<2>> ELSE <<2, 3>>

\* df[col] = pd.to_numeric(df[col]) on an object column
Coerce(t, j) ==
    [t EXCEPT !.dtypes[j] = "float64",
              !.data[j] = [i \in 1..Len(t.data[j]) |->
                             IF t.data[j][i] \in {None, ""} THEN NaN
                             ELSE <<ToFloat(t.data[j][i])>>]]

CanCoerce(t, j) ==
    \A i \in 1..Len(t.data[j]) : t.data[j][i] \in {None, ""} \/ IsFloat(t.data[j][i])

\* "Ensure ... columns are numeric": the loop over the required columns,
\* raising at the first one that is neither numeric nor convertible
RECURSIVE EnsureNumeric(_, _)
EnsureNumeric(t, cols) ==
    IF cols = <<>> THEN [ok |-> TRUE, table |-> t, column |-> NoColumn]
    ELSE LET j == Head(cols)
         IN  IF t.dtypes[j] = "float64" THEN EnsureNumeric(t, Tail(cols))
             ELSE IF CanCoerce(t, j) THEN EnsureNumeric(Coerce(t, j), Tail(cols))
             ELSE [ok |-> FALSE, table |-> t, column |-> t.columns[j]]

\* the rows in which both x and y are present
Points(t) == {i \in 1..t.nrows : t.data[2][i] # NaN /\ t.data[3][i] # NaN}

Constant(t, j, rows) == \A a, b \in rows : t.data[j][a] = t.data[j][b]

\* df[x_col].corr(df[y_col]) is a number; otherwise it is NaN (it never raises)
CorrIsNumber(t) ==
    /\ Cardinality(Points(t)) >= 2
    /\ ~Constant(t, 2, Points(t))
    /\ ~Constant(t, 3, Points(t))

\* f'Correlation: {correlation:.3f}...': the text written into the annotation
CorrelationText(t) == IF CorrIsNumber(t) THEN "number" ELSE "nan"

\* the statistics block of each renderer: histogram always annotates; scatter
\* annotates unless corr raises; hexbin also needs hb.get_array().max(), which
\* raises on an empty array
Annotate(kind, t) ==
    IF kind = "histogram"
    THEN [kind |-> kind, annotated |-> TRUE, correlation |-> "absent"]
    ELSE IF kind = "hexbin" /\ Points(t) = {}
    THEN [kind |-> kind, annotated |-> FALSE, correlation |-> "absent"]
    ELSE [kind |-> kind, annotated |-> TRUE, correlation |-> CorrelationText(t)]

\* create_histogram / create_scatter_plot / create_hexbin_plot
CreateChart(kind, t) ==
    IF NCols(t) # ExpectedColumns(kind)
    THEN [ok |-> FALSE, table |-> t, fig |-> NoFig,
          error |-> "Expected columns", column |-> NoColumn]
    ELSE LET v == EnsureNumeric(t, RequiredColumns(kind))
         IN  IF ~v.ok
             THEN [ok |-> FALSE, table |-> v.table, fig |-> NoFig,
                   error |-> "must be numeric", column |-> v.column]
             ELSE [ok |-> TRUE, table |-> v.table, fig |-> Annotate(kind, v.table),
                   error |-> "none", column |-> NoColumn]

-----------------------------------------------------------------------------
(* Output sink, main lines 349-383 *)

\* "Try common image viewers"
viewers == <<"feh", "eog", "gwenview", "ristretto", "xdg-open">>

\* what subprocess.run([viewer_cmd, tmp.name], check=True) can do
RunOutcomes == {"ok", "FileNotFoundError", "CalledProcessError"}

\* SinkChoice with the viewer flag tested before the output path
SinkChoiceViewerFirst(out, viewerFlag) ==
    IF viewerFlag THEN "viewer"
    ELSE IF out \notin {NoOutput, ""} THEN "save"
    ELSE "display"

\* if output: ... elif viewer: ... else: ...
SinkChoice(out, viewerFlag) ==
    IF out \notin {NoOutput, ""} THEN "save"
    ELSE IF viewerFlag THEN "viewer"
    ELSE "display"

\* LoopContinues of a loop that has lost its break
LoopNeverBreaks(outcome) == TRUE

\* the except clause of the viewer loop: which outcomes make it continue
LoopContinues(outcome) == outcome \in {"CalledProcessError", "FileNotFoundError"}

-----------------------------------------------------------------------------
(* The inputs explored *)

\* header names of the generated texts
ColNames == <<"id", "x", "y", "z", "u", "v">>

\* the text cells of each column
ColText == <<"a", "b", "c", "d", "e", "f">>

ColKinds == {"num", "text"}

\* the cell of data line i in column j, a column of the given kind
Cell(kind, i, j) == IF kind = "num" THEN Numeral[i] ELSE ColText[j]

\* A CSV text of w columns and r data lines, with or without a header line;
\* the last data line has w + delta fields.
Grid(w, r, kinds, hdr, delta) ==
    LET len(i) == IF i = r THEN Max(0, w + delta) ELSE w
        line(i) == [j \in 1..len(i) |-> IF j <= w THEN Cell(kinds[j], i, j) ELSE Numeral[i]]
    IN  (IF hdr THEN <<[j \in 1..w |-> ColNames[j]]>> ELSE <<>>)
          \o [i \in 1..r |-> line(i)]

Texts ==
    UNION {UNION {{Grid(w, r, kinds, hdr, delta) :
                      kinds \in [1..w -> ColKinds], hdr \in BOOLEAN, delta \in {-1, 0, 1}}
                  : r \in 0..MaxRows}
           : w \in 0..MaxCols}

\* openQuote: the last field of the text opens a quote that is never closed
Files ==
    {[name |-> n, rows |-> t, openQuote |-> q] :
        n \in {"<stdin>", "data.csv"}, t \in Texts, q \in BOOLEAN} \ 
    {f \in [name : {"<stdin>", "data.csv"}, rows : Texts, openQuote : {TRUE}] :
        f.rows = <<>> \/ f.rows[Len(f.rows)] = <<>>}

Outputs == {NoOutput, "", "out.png"}

-----------------------------------------------------------------------------
(* The run of main() *)

NoError == [kind |-> "none", column |-> NoColumn]

Running == pc \notin {"done", "failed", "cancelled"}

Init ==
    /\ file \in Files
    /\ chart_type \in ChartTypes
    /\ requested = chart_type
    /\ output \in Outputs
    /\ viewer \in BOOLEAN
    /\ pc = "start"
    /\ strategies = <<>>
    /\ df = NoTable
    /\ fig = NoFig
    /\ err = NoError
    /\ stderr = <<>>
    /\ exitCode = -1
    /\ outFile = "absent"
    /\ tmpFile = "absent"
    /\ launched = <<>>
    /\ shown = FALSE
    /\ stages = <<>>

\* OnError of a handler that swallows the exception and carries on to the sink
OnErrorContinue == "rendered"

\* where main goes when a step raises an exception: except Exception ->
\* click.ClickException -> message on stderr, exit status 1
OnError == "failed"

\* an exception raised inside the try block of main
Raise(kind, column) ==
    /\ pc' = OnError
    /\ err' = [kind |-> kind, column |-> column]
    /\ stderr' = Append(stderr, "Error")
    /\ exitCode' = 1

\* StdinEmpty without the strip(): only text of no line at all counts as empty
StdinEmptyNoStrip(f) == f.name = "<stdin>" /\ f.rows = <<>>

\* read_csv_data: only piped input is read and checked here
StdinEmpty(f) == f.name = "<stdin>" /\ IsBlank(f.rows)

ReadCsvData ==
    /\ pc = "start"
    /\ stages' = Append(stages, "read")
    /\ IF StdinEmpty(file)
       THEN Raise("No data provided via stdin", NoColumn)
       ELSE /\ pc' = "read"
            /\ UNCHANGED <<err, stderr, exitCode>>
    /\ UNCHANGED <<file, chart_type, requested, output, viewer, strategies, df, fig,
                   outFile, tmpFile, launched, shown>>

\* df = parse_csv(data_source) and the two "Loaded"/"Columns" lines
Parse ==
    /\ pc = "read"
    /\ stages' = Append(stages, "parse")
    /\ LET p == ParseCsv(file.rows, file.openQuote)
       IN  /\ strategies' = p.attempted
           /\ IF p.result.ok
              THEN /\ df' = p.result.table
                   /\ pc' = "loaded"
                   /\ stderr' = stderr \o <<"Loaded", "Columns">>
                   /\ UNCHANGED <<err, exitCode>>
              ELSE /\ Raise(p.result.error, NoColumn)
                   /\ UNCHANGED df
    /\ UNCHANGED <<file, chart_type, requested, output, viewer, fig,
                   outFile, tmpFile, launched, shown>>

\* "Determine chart type" and "Validate chart type with data"
Select ==
    /\ pc = "loaded"
    /\ stages' = Append(stages, "select")
    /\ LET r == SelectChartType(chart_type, NCols(df))
       IN  IF r.ok
           THEN /\ chart_type' = r.type
                /\ pc' = "selected"
                /\ UNCHANGED <<err, stderr, exitCode>>
           ELSE /\ Raise(r.error, NoColumn)
                /\ UNCHANGED chart_type
    /\ UNCHANGED <<file, requested, output, viewer, strategies, df, fig,
                   outFile, tmpFile, launched, shown>>

\* "Create the appropriate chart"
Create ==
    /\ pc = "selected"
    /\ stages' = Append(stages, "render")
    /\ LET c == CreateChart(chart_type, df)
       IN  /\ df' = c.table
           /\ IF c.ok
              THEN /\ fig' = c.fig
                   /\ pc' = "rendered"
                   /\ stderr' = Append(stderr, "Creating chart")
                   /\ UNCHANGED <<err, exitCode>>
              ELSE /\ pc' = OnError
                   /\ err' = [kind |-> c.error, column |-> c.column]
                   /\ stderr' = stderr \o <<"Creating chart", "Error">>
                   /\ exitCode' = 1
                   /\ UNCHANGED fig
    /\ UNCHANGED <<file, chart_type, requested, output, viewer, strategies,
                   outFile, tmpFile, launched, shown>>

\* fig.savefig(output, ...) starts writing the file
BeginSave ==
    /\ pc = "rendered"
    /\ SinkChoice(output, viewer) = "save"
    /\ outFile' = "partial"
    /\ pc' = "saving"
    /\ UNCHANGED <<file, chart_type, requested, output, viewer, strategies, df, fig,
                   err, stderr, exitCode, tmpFile, launched, shown, stages>>

\* savefig returns; "Chart saved to ..."
FinishSave ==
    /\ pc = "saving"
    /\ outFile' = "complete"
    /\ stderr' = Append(stderr, "Chart saved")
    /\ pc' = "done"
    /\ exitCode' = 0
    /\ UNCHANGED <<file, chart_type, requested, output, viewer, strategies, df, fig,
                   err, tmpFile, launched, shown, stages>>

\* viewer mode: fig.savefig(tmp.name, ...) starts writing the temporary file
BeginTmpSave ==
    /\ pc = "rendered"
    /\ SinkChoice(output, viewer) = "viewer"
    /\ tmpFile' = "partial"
    /\ pc' = "tmp_saving"
    /\ UNCHANGED <<file, chart_type, requested, output, viewer, strategies, df, fig,
                   err, stderr, exitCode, outFile, launched, shown, stages>>

\* savefig returns; "Opening chart in image viewer..."
FinishTmpSave ==
    /\ pc = "tmp_saving"
    /\ tmpFile' = "complete"
    /\ stderr' = Append(stderr, "Opening chart in image viewer")
    /\ pc' = "viewing"
    /\ UNCHANGED <<file, chart_type, requested, output, viewer, strategies, df, fig,
                   err, exitCode, outFile, launched, shown, stages>>

\* one iteration of "for viewer_cmd in viewers": break when the loop does not
\* continue, and the for-else after the last viewer
RunViewer ==
    /\ pc = "viewing"
    /\ Len(launched) < Len(viewers)
    /\ \E outcome \in RunOutcomes :
         LET i == Len(launched) + 1
         IN  /\ launched' = Append(launched, [cmd |-> viewers[i], outcome |-> outcome])
             /\ IF ~LoopContinues(outcome)
                THEN /\ pc' = "done"
                     /\ exitCode' = 0
                     /\ UNCHANGED stderr
                ELSE IF i = Len(viewers)
                THEN /\ stderr' = Append(stderr, "Could not find image viewer")
                     /\ pc' = "done"
                     /\ exitCode' = 0
                ELSE UNCHANGED <<pc, exitCode, stderr>>
    /\ UNCHANGED <<file, chart_type, requested, output, viewer, strategies, df, fig,
                   err, outFile, tmpFile, shown, stages>>

\* plt.show(block=True)
Show ==
    /\ pc = "rendered"
    /\ SinkChoice(output, viewer) = "display"
    /\ shown' = TRUE
    /\ pc' = "showing"
    /\ UNCHANGED <<file, chart_type, requested, output, viewer, strategies, df, fig,
                   err, stderr, exitCode, outFile, tmpFile, launched, stages>>

\* the user closes the window and plt.show returns
CloseWindow ==
    /\ pc = "showing"
    /\ pc' = "done"
    /\ exitCode' = 0
    /\ UNCHANGED <<file, chart_type, requested, output, viewer, strategies, df, fig,
                   err, stderr, outFile, tmpFile, launched, shown, stages>>

\* a keyboard interrupt: except KeyboardInterrupt -> message, click.Abort()
Interrupt ==
    /\ Running
    /\ pc' = "cancelled"
    /\ stderr' = Append(stderr, "Operation cancelled by user")
    /\ exitCode' = 1
    /\ UNCHANGED <<file, chart_type, requested, output, viewer, strategies, df, fig,
                   err, outFile, tmpFile, launched, shown, stages>>

Next ==
    \/ ReadCsvData
    \/ Parse
    \/ Select
    \/ Create
    \/ BeginSave
    \/ FinishSave
    \/ BeginTmpSave
    \/ FinishTmpSave
    \/ RunViewer
    \/ Show
    \/ CloseWindow
    \/ Interrupt

Spec == Init /\ [][Next]_vars

-----------------------------------------------------------------------------
(* Properties *)

Ran(stage) == \E i \in 1..Len(stages) : stages[i] = stage

Wrote(message) == \E i \in 1..Len(stderr) : stderr[i] = message

LastMessage == IF stderr = <<>> THEN "none" ELSE stderr[Len(stderr)]

\* parse_csv returned a table
LoadSucceeded == Wrote("Loaded")

\* the output sink has done something
SinkActed ==
    outFile # "absent" \/ tmpFile # "absent" \/ launched # <<>> \/ shown

\* the resolution table: the resolved type, or the name of the failure
ResolutionTable(req, n) ==
    IF req = "auto"
    THEN (IF n = 2 THEN "histogram" ELSE IF n = 3 THEN "scatter" ELSE "AutoDetectionError")
    ELSE IF req = "histogram"
    THEN (IF n = 2 THEN "histogram" ELSE "ColumnMismatchError")
    ELSE (IF n = 3 THEN req ELSE "ColumnMismatchError")

\* the message main raises for each failure of the table
MessageOf(failure) ==
    IF failure = "AutoDetectionError" THEN "Auto-detection failed" ELSE "requires columns"

\* C1: once the selection has run, its outcome is the one the resolution table
\* gives for the requested type and the column count of the loaded table: the
\* resolved type on success; on failure the run has failed with the matching
\* error, chart_type is unchanged and no renderer has run.
C1_Resolution ==
    Ran("select") =>
      LET want == ResolutionTable(requested, NCols(df))
      IN  IF want \in {"histogram", "scatter", "hexbin"}
          THEN /\ chart_type = want
               /\ err.kind \notin {"Auto-detection failed", "requires columns"}
          ELSE /\ pc = "failed"
               /\ err.kind = MessageOf(want)
               /\ chart_type = requested
               /\ ~Ran("render")
               /\ fig = NoFig
               /\ ~SinkActed

\* C1 witness: a scatter request on a 2-column table was rejected
C1_Witness ==
    /\ Ran("select")
    /\ requested = "scatter"
    /\ NCols(df) = 2
    /\ err.kind = "requires columns"

SameLengths(rows) == \A i \in 1..Len(rows) : Len(rows[i]) = Len(rows[1])

\* C2: for text whose lines all have the same number of fields, a loaded table
\* has the headers Column_1..Column_N and one row per line when the first cell
\* is a number, and otherwise the first line's names as headers and the
\* remaining lines as rows.
C2_HeaderDetection ==
    (LoadSucceeded /\ pc = "loaded" /\ file.rows[1] # <<>> /\ SameLengths(file.rows)) =>
      IF IsFloat(file.rows[1][1])
      THEN /\ df.columns = ColumnNames(Len(file.rows[1]))
           /\ df.nrows = Len(file.rows)
      ELSE ~HasDuplicates(file.rows[1]) =>
             /\ df.columns = Literal(file.rows[1])
             /\ df.nrows = Len(file.rows) - 1

C4_NoNaNAnnotation ==
    (fig.kind \in {"scatter", "hexbin"} /\ ~CorrIsNumber(df)) =>
      fig.correlation = "absent"

\* can column j be made numeric
Convertible(t, j) ==
    \/ t.dtypes[j] = "float64"
    \/ \A i \in 1..Len(t.data[j]) : t.data[j][i] \in {None, ""} \/ IsFloat(t.data[j][i])

\* the columns each chart needs numeric: value; x and y
NumericColumnsOf(kind) == IF kind = "histogram" THEN {2} ELSE {2, 3}

\* C5: once a renderer has run, either every required column is numeric and a
\* figure was built without error, or the run failed with the non-numeric error
\* naming the first required column (in positional order) that cannot be
\* converted, and no figure was built.
C5_NumericValidation ==
    Ran("render") =>
      LET bad == {j \in NumericColumnsOf(chart_type) : ~Convertible(df, j)}
      IN  IF bad = {}
          THEN /\ err = NoError
               /\ fig.kind = chart_type
               /\ \A j \in NumericColumnsOf(chart_type) : df.dtypes[j] = "float64"
          ELSE /\ pc = "failed"
               /\ err.kind = "must be numeric"
               /\ err.column = df.columns[CHOOSE j \in bad : \A k \in bad : j <= k]
               /\ fig = NoFig

\* C5 witness: x is numeric, y is not, and the error names y
C5_Witness ==
    /\ Ran("render")
    /\ chart_type = "scatter"
    /\ df.dtypes[2] = "float64"
    /\ err.kind = "must be numeric"
    /\ err.column = df.columns[3]

Pipeline == <<"read", "parse", "select", "render">>

\* C6: the sink acts only after read, parse, select and render have each run
\* once, in that order, without error; a run in which one of them raised has
\* failed with a message and exit status 1 and its sink never acts; no step
\* runs twice.
C6_SinkAfterPipeline ==
    /\ Len(stages) <= Len(Pipeline)
    /\ stages = SubSeq(Pipeline, 1, Len(stages))
    /\ SinkActed => (stages = Pipeline /\ err = NoError /\ LoadSucceeded /\ fig # NoFig)
    /\ err # NoError =>
         (pc = "failed" /\ exitCode = 1 /\ LastMessage = "Error" /\ ~SinkActed)
    /\ pc = "failed" => err # NoError

\* C6 witness: both parse strategies failed and the run ended in error
C6_Witness ==
    /\ pc = "failed"
    /\ strategies = <<"pandas", "manual">>
    /\ err.kind = "ValueError: columns passed"
    /\ exitCode = 1

\* C7: a run ended by an interrupt has written the cancel message, exits with
\* the abort status and leaves no partially written output file.
C7_InterruptClean ==
    pc = "cancelled" =>
      /\ LastMessage = "Operation cancelled by user"
      /\ exitCode = 1
      /\ outFile # "partial"

\* after header inference every data row has the header's number of fields
ManualCanAssign(rows) ==
    /\ rows # <<>>
    /\ rows[1] # <<>>
    /\ LET data == IF HasHeader(rows) THEN Tail(rows) ELSE rows
       IN  \A i \in 1..Len(data) : Len(data[i]) = Len(rows[1])
    /\ HasHeader(rows) => ~HasDuplicates(rows[1])

\* C8: when the trusting parse succeeds only it is attempted and its table is
\* returned; otherwise the manual parse is attempted too, and the load succeeds
\* exactly when every data row has the header's number of fields.
C8_TwoStepLoader ==
    Ran("parse") =>
      LET t == PdReadCsv(file.rows, file.openQuote)
      IN  IF t.ok
          THEN /\ strategies = <<"pandas">>
               /\ LoadSucceeded
               /\ pc = "loaded" => df = t.table
          ELSE /\ strategies = <<"pandas", "manual">>
               /\ LoadSucceeded <=> ManualCanAssign(file.rows)

InOrder == \A i \in 1..Len(launched) : launched[i].cmd = viewers[i]

ViewerLoopOver == pc = "done" /\ tmpFile = "complete"

Found(i) == launched[i].outcome # "FileNotFoundError"

Succeeded(i) == launched[i].outcome = "ok"

\* C9 as claimed: viewers are launched in list order after the temporary file is
\* written; a viewer that was found is the last one launched; the temporary path
\* is reported exactly when the loop ended with no viewer found.
C9_FirstAvailable ==
    /\ InOrder
    /\ launched # <<>> => tmpFile = "complete"
    /\ \A i \in 1..Len(launched) : Found(i) => i = Len(launched)
    /\ Wrote("Could not find image viewer")
         <=> (ViewerLoopOver /\ \A i \in 1..Len(launched) : ~Found(i))

\* C9 amended: viewers are launched in list order after the temporary file is
\* written; a viewer that exited with status 0 is the last one launched and ends
\* the loop, while a missing or failing viewer is followed by the next one; the
\* temporary path is reported exactly when the loop ended after every viewer of
\* the list was launched and none succeeded.
C9_FirstSuccessful ==
    /\ InOrder
    /\ launched # <<>> => tmpFile = "complete"
    /\ \A i \in 1..Len(launched) : Succeeded(i) => (i = Len(launched) /\ pc = "done")
    /\ ViewerLoopOver =>
         \/ Succeeded(Len(launched))
         \/ Len(launched) = Len(viewers)
    /\ Wrote("Could not find image viewer")
         <=> (ViewerLoopOver /\ \A i \in 1..Len(launched) : ~Succeeded(i))

\* C9 witness: feh was found but failed, eog was launched next and succeeded
C9_Witness ==
    /\ pc = "done"
    /\ Len(launched) = 2
    /\ launched[1] = [cmd |-> "feh", outcome |-> "CalledProcessError"]
    /\ launched[2] = [cmd |-> "eog", outcome |-> "ok"]

\* an output path was given (a non-empty path)
OutputGiven == output \notin {NoOutput, ""}

\* C10: the sink used is fixed by precedence, output path first, then the viewer
\* flag, then the display window; the other two are never used, and a run that
\* is done has completed exactly the chosen one.
C10_SinkPrecedence ==
    /\ OutputGiven =>
         /\ tmpFile = "absent" /\ launched = <<>> /\ ~shown
         /\ pc = "done" => outFile = "complete"
    /\ (~OutputGiven /\ viewer) =>
         /\ outFile = "absent" /\ ~shown
         /\ pc = "done" => (tmpFile = "complete" /\ launched # <<>>)
    /\ (~OutputGiven /\ ~viewer) =>
         /\ outFile = "absent" /\ tmpFile = "absent" /\ launched = <<>>
         /\ pc = "done" => shown
    /\ pc = "showing" => exitCode = -1

\* C10 witness: output path and viewer flag both given, chart saved to the path
C10_Witness ==
    /\ pc = "done"
    /\ output = "out.png"
    /\ viewer
    /\ outFile = "complete"

=============================================================================
